---- MODULE Spec2Model ----
(***************************************************************************)
(* Corporate-action tracking: the archive reconciliation engine of         *)
(* CA_Tracking_System.py (determine_deadline_date, merge_with_archive,     *)
(* apply_filters_to_archive, generate_tabs_from_archive, save_to_excel /   *)
(* load_existing_excel, run_ca_tracking).                                  *)
(*                                                                         *)
(* A pandas cell is a record [t, s, d]: t is the Python type of the value, *)
(* s its text (for a str), d its number (a day number for a date, the      *)
(* digits YYYYMMDD for the text of a date).  Days are numbered from        *)
(* 2024-01-01 = 1.  A DataFrame is the sequence of its rows; a column the  *)
(* frame does not have is the cell Missing in every row.                   *)
(***************************************************************************)
EXTENDS Integers, Sequences, FiniteSets, TLC

VARIABLES
    today,      \* TODAY, the wall-clock date read at import
    dl,         \* one call of determine_deadline_date: its row and result
    archive,    \* the archive DataFrame held between merge_with_archive calls
    call,       \* locals of the last merge_with_archive call (inputs, results)
    wb,         \* the latest tracking workbook on disk (three sheets)
    run,        \* locals of the last run_ca_tracking (inputs, results, outcome)
    folder,     \* the tracking folder shared by two overlapping processes
    proc        \* each of the two processes: its position and its locals

vars == <<today, dl, archive, call, wb, run, folder, proc>>

---------------------------------------------------------------------------
(* Cells                                                                   *)

Str(s) == [t |-> "str", s |-> s, d |-> 0]
NaN == [t |-> "nan", s |-> "", d |-> 0]
NaT == [t |-> "nat", s |-> "", d |-> 0]
None == [t |-> "none", s |-> "", d |-> 0]
Missing == [t |-> "missing", s |-> "", d |-> 0]
Ts(n) == [t |-> "ts", s |-> "", d |-> n]
Date(n) == [t |-> "date", s |-> "", d |-> n]

\* pd.isna / pd.notna
isna(v) == v.t \in {"nan", "nat", "none"}
notna(v) == ~isna(v)

\* The calendar of 2024 (January to March): a day number as the digits
\* YYYYMMDD that str(date), strftime('%Y-%m-%d') print, and back.
Ymd(n) ==
    IF n <= 31 THEN 20240100 + n
    ELSE IF n <= 31 + 29 THEN 20240200 + (n - 31)
    ELSE 20240300 + (n - 31 - 29)
DayOf(ymd) ==
    LET m == (ymd \div 100) % 100
        dd == ymd % 100
    IN  IF m = 1 THEN dd
        ELSE IF m = 2 THEN 31 + dd
        ELSE 31 + 29 + dd

\* The str 'YYYY-MM-DD' of day n, and pd.to_datetime(text).date()
IsoText(n) == [t |-> "iso", s |-> "", d |-> Ymd(n)]
to_date(v) == DayOf(v.d)

\* str.strip() on the texts of the model: "x " and " " carry padding.
strip(s) ==
    CASE s = "x " -> "x"
      [] s = " " -> ""
      [] s = "n1 " -> "n1"
      [] OTHER -> s

\* str(val) of a cell: nan prints "nan", a Timestamp prints its date and time.
pystr(v) ==
    CASE v.t = "str" -> v
      [] v.t = "nan" -> Str("nan")
      [] v.t = "nat" -> Str("NaT")
      [] v.t = "none" -> Str("None")
      [] v.t = "ts" -> [t |-> "tstext", s |-> "", d |-> Ymd(v.d)]
      [] v.t = "date" -> IsoText(v.d)
      [] OTHER -> v

normalize_value(val) ==
    IF isna(val) THEN Str("")
    ELSE LET sv == pystr(val)
         IN  IF sv.t = "str" THEN Str(strip(sv.s)) ELSE sv

\* row.get(col, default)
Get(row, col, default) == IF row[col] = Missing THEN default ELSE row[col]

---------------------------------------------------------------------------
(* Date windows and the deadline resolver                                  *)

DaysAhead == 15
DaysBack == 7
NEXT_15_DAYS(T) == T + DaysAhead
LAST_7_DAYS(T) == T - DaysBack

\* .date() of a Timestamp; a date stays a date
as_day(v) == v.d

\* The resolver with the tie of the first rule given to the client deadline
determine_deadline_date_client_tie(row, T) ==
    LET client_deadline == row.ClientDeadline
        early_deadline == row.EarlyDeadline
        c == as_day(client_deadline)
        e == as_day(early_deadline)
        client_in_next_15 == notna(client_deadline) /\ T <= c /\ c <= NEXT_15_DAYS(T)
        early_in_next_15 == notna(early_deadline) /\ T <= e /\ e <= NEXT_15_DAYS(T)
        client_in_last_7 == notna(client_deadline) /\ LAST_7_DAYS(T) <= c /\ c < T
        early_in_last_7 == notna(early_deadline) /\ LAST_7_DAYS(T) <= e /\ e < T
    IN  IF client_in_next_15 /\ early_in_next_15
        THEN IF e < c THEN <<Date(e), Str("Early")>> ELSE <<Date(c), Str("Client")>>
        ELSE IF early_in_next_15 THEN <<Date(e), Str("Early")>>
        ELSE IF client_in_next_15 THEN <<Date(c), Str("Client")>>
        ELSE IF early_in_last_7 THEN <<Date(e), Str("Early")>>
        ELSE IF client_in_last_7 THEN <<Date(c), Str("Client")>>
        ELSE IF notna(early_deadline) /\ e < T /\ notna(client_deadline)
                /\ c > NEXT_15_DAYS(T)
        THEN <<Date(c), Str("Client")>>
        ELSE <<None, None>>

determine_deadline_date(row, T) ==
    LET client_deadline == row.ClientDeadline
        early_deadline == row.EarlyDeadline
        c == as_day(client_deadline)
        e == as_day(early_deadline)
        client_in_next_15 == notna(client_deadline) /\ T <= c /\ c <= NEXT_15_DAYS(T)
        early_in_next_15 == notna(early_deadline) /\ T <= e /\ e <= NEXT_15_DAYS(T)
        client_in_last_7 == notna(client_deadline) /\ LAST_7_DAYS(T) <= c /\ c < T
        early_in_last_7 == notna(early_deadline) /\ LAST_7_DAYS(T) <= e /\ e < T
    IN  IF client_in_next_15 /\ early_in_next_15
        THEN IF e <= c THEN <<Date(e), Str("Early")>> ELSE <<Date(c), Str("Client")>>
        ELSE IF early_in_next_15 THEN <<Date(e), Str("Early")>>
        ELSE IF client_in_next_15 THEN <<Date(c), Str("Client")>>
        ELSE IF early_in_last_7 THEN <<Date(e), Str("Early")>>
        ELSE IF client_in_last_7 THEN <<Date(c), Str("Client")>>
        ELSE IF notna(early_deadline) /\ e < T /\ notna(client_deadline)
                /\ c > NEXT_15_DAYS(T)
        THEN <<Date(c), Str("Client")>>
        ELSE <<None, None>>

---------------------------------------------------------------------------
(* merge_with_archive                                                      *)

\* A row's columns in index order: REQUIRED_COLUMNS, then Comments, then the
\* two derived columns the merge adds.
ROW_INDEX ==
    <<"SecurityID", "SecurityName", "EventType", "ResponseStatus", "Client",
      "ReferenceID", "ActionClass", "ISIN", "ClientDeadline", "EarlyDeadline",
      "Comments", "DeadlineDate", "DeadlineType">>
STATUS_COLS == {"Client", "ResponseStatus"}
NOT_COMPARED == {"Comments", "DeadlineDate", "DeadlineType"}

EmptyDict == [k \in {} |-> {}]
EmptySummary ==
    [added |-> <<>>, updated |-> <<>>, unchanged |-> <<>>,
     missing_from_input |-> {}, status_only |-> <<>>,
     updated_details |-> EmptyDict, status_details |-> EmptyDict]

\* `value if value else ""` for a resolver result
or_blank(v) == IF v = None THEN Str("") ELSE v

\* ref_id = str(row.get("Reference ID", ""))
ref_id_of(row) == pystr(Get(row, "ReferenceID", Str(""))).s

\* {str(x) for x in df.get("Reference ID", []) if pd.notna(x) and str(x) != ""}
id_set(df) ==
    {pystr(df[i].ReferenceID).s : i \in {j \in 1..Len(df) :
        /\ df[j].ReferenceID # Missing
        /\ notna(df[j].ReferenceID)
        /\ pystr(df[j].ReferenceID).s # ""}}

\* existing_dict: the keys, and for a key the position of the last row holding it
existing_keys(df) == {ref_id_of(df[i]) : i \in 1..Len(df)} \ {""}
existing_idx(df, k) ==
    CHOOSE i \in 1..Len(df) :
        /\ ref_id_of(df[i]) = k
        /\ \A j \in 1..Len(df) : ref_id_of(df[j]) = k => j <= i

\* The columns the field-by-field comparison visits, in row.index order
\* The comparison without the skip of the columns the archive row lacks
compared_columns_of_row(row, existing_row) ==
    LET visit(col) == col \notin NOT_COMPARED /\ row[col] # Missing
    IN  SelectSeq(ROW_INDEX, visit)

compared_columns(row, existing_row) ==
    LET visit(col) ==
            /\ col \notin NOT_COMPARED
            /\ row[col] # Missing
            /\ existing_row[col] # Missing
    IN  SelectSeq(ROW_INDEX, visit)

\* The comparison that passes over a column whose stored value is NaN
changed_columns_of_present(row, existing_row) ==
    LET differs(col) ==
            /\ notna(Get(existing_row, col, None))
            /\ normalize_value(row[col]) # normalize_value(Get(existing_row, col, None))
    IN  SelectSeq(compared_columns(row, existing_row), differs)

changed_columns(row, existing_row) ==
    LET differs(col) ==
            normalize_value(row[col]) # normalize_value(Get(existing_row, col, None))
    IN  SelectSeq(compared_columns(row, existing_row), differs)

\* The classification without the status columns set apart
core_changed_columns_all(row, existing_row) == changed_columns(row, existing_row)

core_changed_columns(row, existing_row) ==
    LET core(col) == col \notin STATUS_COLS
    IN  SelectSeq(changed_columns(row, existing_row), core)

status_changed_columns(row, existing_row) ==
    LET status(col) == col \in STATUS_COLS
    IN  SelectSeq(changed_columns(row, existing_row), status)

Range(seq) == {seq[i] : i \in 1..Len(seq)}

\* The detail entry that records the incoming value as the old value too
change_details_new_only(cols, row, existing_row) ==
    [changed_columns |-> cols,
     old_values |-> [col \in Range(cols) |-> normalize_value(row[col])],
     new_values |-> [col \in Range(cols) |-> normalize_value(row[col])]]

change_details(cols, row, existing_row) ==
    [changed_columns |-> cols,
     old_values |-> [col \in Range(cols) |-> normalize_value(Get(existing_row, col, None))],
     new_values |-> [col \in Range(cols) |-> normalize_value(row[col])]]

\* The overwrite that writes the two status columns only
overwrite_status_fields(archive_row, row) ==
    [col \in DOMAIN archive_row |->
        IF col \in STATUS_COLS /\ row[col] # Missing THEN row[col] ELSE archive_row[col]]

\* The overwrite that writes only the columns the archive row already has
overwrite_stored_fields(archive_row, row) ==
    [col \in DOMAIN archive_row |->
        IF col = "Comments" \/ row[col] = Missing \/ archive_row[col] = Missing
        THEN archive_row[col] ELSE row[col]]

\* The overwrite without the skip of Comments
overwrite_fields_and_comments(archive_row, row) ==
    [col \in DOMAIN archive_row |->
        IF row[col] = Missing THEN archive_row[col] ELSE row[col]]

\* for col in row.index: if col == "Comments": continue; archive_df.at[idx, col] = row[col]
overwrite_fields(archive_row, row) ==
    [col \in DOMAIN archive_row |->
        IF col = "Comments" \/ row[col] = Missing THEN archive_row[col] ELSE row[col]]

\* The merge that leaves the stored derived deadline columns as they are
refresh_deadline_skipped(archive_row, row) == archive_row

\* archive_df.at[idx, "Deadline Date"/"Deadline Type"] = ...
refresh_deadline(archive_row, row) ==
    [archive_row EXCEPT !.DeadlineDate = row.DeadlineDate,
                        !.DeadlineType = row.DeadlineType]

\* Comments inside the changed branch: a non-blank incoming comment is written
comment_if_nonblank(archive_row, row) ==
    IF row.Comments # Missing /\ normalize_value(row.Comments) # Str("")
    THEN [archive_row EXCEPT !.Comments = row.Comments]
    ELSE archive_row

\* The merge without the comment handling that follows the two branches
comment_untouched(archive_row, row, existing_row) == archive_row

\* Comments after either branch: written when non-blank and different, after
\* normalization, from the comment of the row read before the loop
comment_if_differs(archive_row, row, existing_row) ==
    IF /\ row.Comments # Missing
       /\ normalize_value(row.Comments) # Str("")
       /\ normalize_value(row.Comments) #
            (IF existing_row.Comments # Missing
             THEN normalize_value(existing_row.Comments) ELSE Str(""))
    THEN [archive_row EXCEPT !.Comments = row.Comments]
    ELSE archive_row

\* The appended row with its Comments left empty
new_archive_row_blank(row) == [row EXCEPT !.Comments = Str("")]

\* The row appended for a Reference ID the archive does not hold
new_archive_row(row) ==
    [row EXCEPT !.Comments =
        IF row.Comments # Missing THEN normalize_value(row.Comments) ELSE Str("")]

\* One incoming row with its derived deadline columns set
with_deadline(row, T) ==
    LET res == determine_deadline_date(row, T)
    IN  [row EXCEPT !.DeadlineDate = or_blank(res[1]),
                    !.DeadlineType = or_blank(res[2])]

\* Every frame has one set of columns: a column some row holds is NaN in the
\* rows that were written before the column existed.
align_columns(df) ==
    LET has(col) == \E i \in 1..Len(df) : df[i][col] # Missing
    IN  [i \in 1..Len(df) |->
            [col \in DOMAIN df[i] |->
                IF df[i][col] = Missing /\ has(col) THEN NaN ELSE df[i][col]]]

\* The body of `for idx, row in new_df.iterrows()` for one row
merge_row(acc, row0, existing, T) ==
    LET ref_id == ref_id_of(row0)
        row == with_deadline(row0, T)
        cs == acc.change_summary
    IN  IF ref_id = "" THEN acc
        ELSE IF ref_id \in existing_keys(existing)
        THEN LET idx == existing_idx(existing, ref_id)
                 existing_row == existing[idx]
                 core == core_changed_columns(row, existing_row)
                 status == status_changed_columns(row, existing_row)
                 old == acc.archive_df[idx]
                 written ==
                    IF core # <<>> \/ status # <<>>
                    THEN comment_if_nonblank(
                            refresh_deadline(overwrite_fields(old, row), row), row)
                    ELSE refresh_deadline(old, row)
                 final == comment_if_differs(written, row, existing_row)
             IN  [archive_df |-> [acc.archive_df EXCEPT ![idx] = final],
                  change_summary |->
                    IF core # <<>>
                    THEN [cs EXCEPT !.updated = Append(@, ref_id),
                                    !.updated_details =
                                        (ref_id :> change_details(core, row, existing_row)) @@ @]
                    ELSE IF status # <<>>
                    THEN [cs EXCEPT !.status_only = Append(@, ref_id),
                                    !.status_details =
                                        (ref_id :> change_details(status, row, existing_row)) @@ @]
                    ELSE [cs EXCEPT !.unchanged = Append(@, ref_id)]]
        ELSE [archive_df |-> Append(acc.archive_df, new_archive_row(row)),
              change_summary |-> [cs EXCEPT !.added = Append(@, ref_id)]]

RECURSIVE merge_loop(_, _, _, _, _)
merge_loop(acc, new_df, i, existing, T) ==
    IF i > Len(new_df) THEN acc
    ELSE merge_loop(merge_row(acc, new_df[i], existing, T), new_df, i + 1, existing, T)

\* The first-time path that lists no identifier as added
merge_first_unlisted(new_df, T) ==
    [archive_df |-> [i \in 1..Len(new_df) |-> with_deadline(new_df[i], T)],
     change_summary |-> EmptySummary]

\* First time: no existing archive (existing_archive_df.empty)
merge_first(new_df, T) ==
    LET first_row(row) ==
            [with_deadline(row, T) EXCEPT !.Comments =
                IF row.Comments = Missing \/ isna(row.Comments)
                THEN Str("") ELSE row.Comments]
        ids == [i \in 1..Len(new_df) |-> ref_id_of(new_df[i])]
        nonempty(k) == k # ""
    IN  [archive_df |-> [i \in 1..Len(new_df) |-> first_row(new_df[i])],
         change_summary |-> [EmptySummary EXCEPT !.added = SelectSeq(ids, nonempty)]]

\* The report left empty, as when the computation raises and is passed over
missing_ids_none(new_df, existing) == {}

\* existing_ids - new_ids, the sorted list as the set of its elements
missing_ids(new_df, existing) == id_set(existing) \ id_set(new_df)

\* The merge that takes the first-time path whatever the archive holds
merge_always_first(new_df, existing_archive_df, T) == merge_first(new_df, T)

merge_with_archive(new_df, existing_archive_df, T) ==
    IF Len(existing_archive_df) = 0
    THEN merge_first(new_df, T)
    ELSE LET start ==
                [archive_df |-> existing_archive_df,
                 change_summary |->
                    [EmptySummary EXCEPT !.missing_from_input =
                        missing_ids(new_df, existing_archive_df)]]
             done == merge_loop(start, new_df, 1, existing_archive_df, T)
         IN  [done EXCEPT !.archive_df = align_columns(@)]

---------------------------------------------------------------------------
(* save_to_excel and load_existing_excel                                   *)

OUTPUT_COLS ==
    {"SecurityID", "SecurityName", "EventType", "ResponseStatus", "Client",
     "ReferenceID", "ActionClass", "ISIN", "DeadlineDate", "DeadlineType",
     "Comments"}

\* pd.to_datetime(df['Deadline Date']).dt.strftime('%Y-%m-%d') for one cell:
\* a date prints, a date text is parsed and printed, "" and NaN give NaN
format_deadline(v) ==
    CASE v.t = "date" -> IsoText(v.d)
      [] v.t = "iso" -> IsoText(to_date(v))
      [] OTHER -> NaN

\* A cell written to a sheet and read back by pd.read_excel: an empty text
\* comes back NaN
read_back(v) ==
    IF v.t = "missing" \/ isna(v) \/ v = Str("") THEN NaN ELSE v

\* prepare_output_columns, the date format, to_excel and read_excel for a row
sheet_row(row) ==
    [col \in DOMAIN row |->
        IF col \notin OUTPUT_COLS THEN Missing
        ELSE IF col = "DeadlineDate" THEN read_back(format_deadline(row[col]))
        ELSE read_back(row[col])]

sheet_of(df) == [i \in 1..Len(df) |-> sheet_row(df[i])]

---------------------------------------------------------------------------
(* apply_filters_to_archive and generate_tabs_from_archive                 *)

EXCLUDED_EVENT_TYPES ==
    {"OPTIONAL DIVIDEND", "CASH DISTRIBUTIONS", "DIVIDEND REINVESTMENT               "}

\* The texts of the model that contain the substring "NOT APPLICABLE"
contains_not_applicable(v) ==
    v.t = "str" /\ v.s \in {"NOT APPLICABLE", "RESPONSE NOT APPLICABLE"}

\* The four filters for one row; str.contains(..., na=False) lets NaN through
\* The filter without the Action Class test
passes_filters_any_class(row) ==
    /\ ~contains_not_applicable(row.ResponseStatus)
    /\ notna(row.Client)
    /\ row.Client # Str("nil")
    /\ row.Client # Str("")
    /\ ~(row.EventType.t = "str" /\ row.EventType.s \in EXCLUDED_EVENT_TYPES)

passes_filters(row) ==
    /\ ~contains_not_applicable(row.ResponseStatus)
    /\ notna(row.Client)
    /\ row.Client # Str("nil")
    /\ row.Client # Str("")
    /\ ~(row.EventType.t = "str" /\ row.EventType.s \in EXCLUDED_EVENT_TYPES)
    /\ row.ActionClass # Str("Mandatory")

apply_filters_to_archive(df) == SelectSeq(df, passes_filters)

\* A Deadline Date cell that holds a date: a date object or the text of one
holds_date(v) == v.t \in {"date", "iso", "ts"}
\* The date of such a cell: pd.to_datetime(text).date(), or .date()
date_of(v) == IF v.t = "iso" THEN to_date(v) ELSE v.d

in_next_15(d, T) == T <= d /\ d <= NEXT_15_DAYS(T)
\* The Last 7 Days window without its first day
in_last_7_open(d, T) == LAST_7_DAYS(T) < d /\ d < T
in_last_7(d, T) == LAST_7_DAYS(T) <= d /\ d < T

\* str(comment).strip() if pd.notna(comment) and str(comment).strip() != '' else ''
comment_str(v) == IF notna(v) THEN strip(pystr(v).s) ELSE ""

\* str(row.get('Reference ID', '')).strip()
stripped_ref_id(row) == strip(ref_id_of(row))

\* Whether a row of the previous Next 15 Days sheet gives a comment to carry
carries_comment(row, T) ==
    /\ notna(row.DeadlineDate)
    /\ row.DeadlineDate # Str("")
    /\ holds_date(row.DeadlineDate)
    /\ stripped_ref_id(row) # ""
    /\ in_next_15(date_of(row.DeadlineDate), T)
    /\ comment_str(row.Comments) # ""

\* previous_comments: for a Reference ID the comment of the last row carrying one
previous_comments(previous_tab1_df, T) ==
    LET carrying == {i \in 1..Len(previous_tab1_df) : carries_comment(previous_tab1_df[i], T)}
        keys == {stripped_ref_id(previous_tab1_df[i]) : i \in carrying}
        last(k) == CHOOSE i \in carrying :
                      /\ stripped_ref_id(previous_tab1_df[i]) = k
                      /\ \A j \in carrying :
                            stripped_ref_id(previous_tab1_df[j]) = k => j <= i
    IN  [k \in keys |-> comment_str(previous_tab1_df[last(k)].Comments)]

\* Whether the loop over the filtered rows reaches the two window tests
has_deadline(row) ==
    /\ notna(row.DeadlineDate)
    /\ row.DeadlineDate # Str("")
    /\ holds_date(row.DeadlineDate)

\* The row appended to tab1_data: today's comment, else the previous one, else ""
tab1_row(row, prev) ==
    LET ref_id == stripped_ref_id(row)
        today_comment == Get(row, "Comments", Str(""))
        has_today_comment == notna(today_comment) /\ strip(pystr(today_comment).s) # ""
    IN  [row EXCEPT !.Comments =
            IF has_today_comment THEN Str(strip(pystr(today_comment).s))
            ELSE IF ref_id \in DOMAIN prev THEN Str(prev[ref_id])
            ELSE Str("")]

tab1_data(filtered_df, prev, T) ==
    LET goes(row) == has_deadline(row) /\ in_next_15(date_of(row.DeadlineDate), T)
        picked == SelectSeq(filtered_df, goes)
    IN  [i \in 1..Len(picked) |-> tab1_row(picked[i], prev)]

\* The Last 7 Days rows without the two window tests
tab2_data_any_date(filtered_df, T) == SelectSeq(filtered_df, has_deadline)

tab2_data(filtered_df, T) ==
    LET goes(row) ==
            /\ has_deadline(row)
            /\ ~in_next_15(date_of(row.DeadlineDate), T)
            /\ in_last_7(date_of(row.DeadlineDate), T)
    IN  SelectSeq(filtered_df, goes)

\* sort_values(by='Deadline Date') compares the cells themselves: dates with
\* dates, texts with texts.  A date and a text do not compare (TypeError).
sort_raises(df) ==
    \E i, j \in 1..Len(df) : df[i].DeadlineDate.t # df[j].DeadlineDate.t

RECURSIVE insert_by_deadline(_, _)
insert_by_deadline(sorted, row) ==
    IF sorted = <<>> THEN <<row>>
    ELSE IF sorted[Len(sorted)].DeadlineDate.d <= row.DeadlineDate.d
    THEN Append(sorted, row)
    ELSE Append(insert_by_deadline(SubSeq(sorted, 1, Len(sorted) - 1), row),
                sorted[Len(sorted)])

RECURSIVE sort_prefix(_, _)
sort_prefix(df, n) ==
    IF n = 0 THEN <<>> ELSE insert_by_deadline(sort_prefix(df, n - 1), df[n])

sort_values(df) == sort_prefix(df, Len(df))

\* The two sorts at the end of generate_tabs_from_archive
sorted_tabs(t1, t2) ==
    IF sort_raises(t1) \/ sort_raises(t2)
    THEN [raised |-> TRUE, tab1_df |-> <<>>, tab2_df |-> <<>>]
    ELSE [raised |-> FALSE, tab1_df |-> sort_values(t1), tab2_df |-> sort_values(t2)]

\* The loop over the filtered rows, then the sorts
tabs_of_filtered(filtered_df, prev, T) ==
    sorted_tabs(tab1_data(filtered_df, prev, T), tab2_data(filtered_df, T))

generate_tabs_from_archive(archive_df, previous_tab1_df, T) ==
    IF Len(archive_df) = 0
    THEN [raised |-> FALSE, tab1_df |-> <<>>, tab2_df |-> <<>>]
    ELSE tabs_of_filtered(apply_filters_to_archive(archive_df),
                          previous_comments(previous_tab1_df, T), T)

\* The call that writes the annotation of each Next 15 Days entry into its
\* archive row
archive_with_view_comments(archive_df, previous_tab1_df, T) ==
    [i \in 1..Len(archive_df) |->
        IF /\ passes_filters(archive_df[i])
           /\ has_deadline(archive_df[i])
           /\ in_next_15(date_of(archive_df[i].DeadlineDate), T)
        THEN tab1_row(archive_df[i], previous_comments(previous_tab1_df, T))
        ELSE archive_df[i]]

\* The caller's archive_df after generate_tabs_from_archive: the filters index
\* into new frames and the loop writes to row.copy() only
archive_after_tabs(archive_df, previous_tab1_df, T) == archive_df

\* The three sheets save_to_excel writes, as pd.read_excel reads them back
save_to_excel(tab1_df, tab2_df, archive_df) ==
    [exists |-> TRUE,
     tab1 |-> sheet_of(sort_values(tab1_df)),
     tab2 |-> sheet_of(sort_values(tab2_df)),
     archive |-> sheet_of(archive_df)]

---------------------------------------------------------------------------
(* Bounds and inputs                                                       *)

\* The first TODAY of a behaviour: day 10 is 2024-01-10
FirstDay == 10
\* How many days TODAY advances at most
MaxAdvance == 2
\* How far beyond the two windows the resolver's input dates reach
Slack == 2

Days == FirstDay..(FirstDay + MaxAdvance)

NoCall == [active |-> FALSE, new_df |-> <<>>, existing |-> <<>>,
           archive_df |-> <<>>, change_summary |-> EmptySummary, calls |-> 0]
NoDl == [row |-> [ClientDeadline |-> NaT, EarlyDeadline |-> NaT],
         out |-> <<None, None>>, done |-> FALSE]
NoWb == [exists |-> FALSE, tab1 |-> <<>>, tab2 |-> <<>>, archive |-> <<>>]
NoRun == [status |-> "none", n |-> 0]

\* The two processes of an overlap, and the tracking folder: its workbooks by
\* the second in their name, and the name of the one modified last (0: none)
Procs == {1, 2}
NoFolder == [files |-> [k \in {} |-> NoWb], latest |-> 0, backups |-> {}]
IdleProc ==
    [pc |-> "idle", file_path |-> 0, read_file |-> 0, read |-> NoWb,
     locals |-> [status |-> "none"], loaded |-> NoWb]
NoProc == [p \in Procs |-> IdleProc]

---------------------------------------------------------------------------
(* The deadline resolver on its own                                        *)

ResolverDates ==
    {NaT} \cup {Ts(n) : n \in (FirstDay - DaysBack - Slack)
                              ..(FirstDay + MaxAdvance + DaysAhead + Slack)}

InitDL ==
    /\ today \in Days
    /\ dl \in {[row |-> [ClientDeadline |-> c, EarlyDeadline |-> e],
                out |-> <<None, None>>, done |-> FALSE] :
                    c \in ResolverDates, e \in ResolverDates}
    /\ archive = <<>>
    /\ call = NoCall
    /\ wb = NoWb
    /\ run = NoRun
    /\ folder = NoFolder
    /\ proc = NoProc

Resolve ==
    /\ ~dl.done
    /\ dl' = [dl EXCEPT !.out = determine_deadline_date(dl.row, today), !.done = TRUE]
    /\ UNCHANGED <<folder, proc, today, archive, call, wb, run>>

NextDL == Resolve

SpecDL == InitDL /\ [][NextDL]_vars

---------------------------------------------------------------------------
(* Sequences of merge_with_archive calls on one archive                    *)

\* An incoming row after extract_columns and parse_dates
FeedRow(id, name, client, comments, client_deadline) ==
    [SecurityID |-> Str("S1"), SecurityName |-> name, EventType |-> Str("MERGER"),
     ResponseStatus |-> Str("RESPONSE REQUIRED"), Client |-> client,
     ReferenceID |-> id, ActionClass |-> Str("Voluntary"), ISIN |-> Str("CA0001"),
     ClientDeadline |-> client_deadline, EarlyDeadline |-> NaT,
     Comments |-> comments, DeadlineDate |-> Missing, DeadlineType |-> Missing]

MergeFeed ==
    {FeedRow(Str("A"), Str("n1"), Str("c1"), NaN, Ts(FirstDay + 5)),
     FeedRow(Str("A"), Str("n1"), Str("c1"), Str("x"), Ts(FirstDay + 5)),
     FeedRow(Str("A"), Str("n1"), Str("c1"), Str("x "), Ts(FirstDay + 5)),
     FeedRow(Str("A"), Str("n1"), Str("c1"), Str("y"), Ts(FirstDay + 5)),
     FeedRow(Str("A"), Str("n2"), Str("c1"), NaN, Ts(FirstDay + 5)),
     FeedRow(Str("A"), Str("n1"), Str("c2"), NaN, Ts(FirstDay + 5)),
     FeedRow(Str("A"), Str("n1 "), Str("c2"), NaN, Ts(FirstDay + 5)),
     FeedRow(Str("A"), NaN, Str("c1"), NaN, Ts(FirstDay + 5)),
     FeedRow(Str("B"), Str("n1"), Str("c1"), NaN, Ts(FirstDay - 3)),
     FeedRow(Str("B"), Str("n1"), Str("c1"), NaN, NaT),
     FeedRow(Str("B"), Str("n1"), Str("nil"), Str(" "), Ts(FirstDay - 3)),
     FeedRow(NaN, Str("n1"), Str("c1"), NaN, NaT)}

\* How many rows a batch has at most, and how many calls a behaviour makes
MaxBatch == 2
MaxCalls == 2

RECURSIVE SeqsUpTo(_, _)
SeqsUpTo(S, n) ==
    IF n = 0 THEN {<<>>}
    ELSE LET shorter == SeqsUpTo(S, n - 1)
         IN  shorter \cup {Append(q, r) : q \in {p \in shorter : Len(p) = n - 1}, r \in S}

MergeBatches == SeqsUpTo(MergeFeed, MaxBatch)

InitMerge ==
    /\ today = FirstDay
    /\ dl = NoDl
    /\ archive = <<>>
    /\ call = [NoCall EXCEPT !.calls = 0]
    /\ wb = NoWb
    /\ run = NoRun
    /\ folder = NoFolder
    /\ proc = NoProc

call_locals(new_df, existing, res, calls) ==
    [active |-> TRUE, new_df |-> new_df, existing |-> existing,
     archive_df |-> res.archive_df, change_summary |-> res.change_summary,
     calls |-> calls]

MergeCall(new_df) ==
    /\ ~call.active
    /\ call.calls < MaxCalls
    /\ call' = call_locals(new_df, archive,
                           merge_with_archive(new_df, archive, today), call.calls + 1)
    /\ archive' = call'.archive_df
    /\ UNCHANGED <<folder, proc, today, dl, wb, run>>

\* The caller drops the results of the call and keeps the archive
Return ==
    /\ call.active
    /\ call' = [NoCall EXCEPT !.calls = call.calls]
    /\ UNCHANGED <<folder, proc, today, dl, archive, wb, run>>

\* The archive is written to the Archive sheet and read back
PersistReload ==
    /\ ~call.active
    /\ archive # <<>>
    /\ archive' = sheet_of(archive)
    /\ archive' # archive
    /\ UNCHANGED <<folder, proc, today, dl, call, wb, run>>

NextMerge ==
    \/ \E new_df \in MergeBatches : MergeCall(new_df)
    \/ Return
    \/ PersistReload

SpecMerge == InitMerge /\ [][NextMerge]_vars

---------------------------------------------------------------------------
(* Runs of run_ca_tracking on one tracking folder                          *)

RunFeed ==
    LET a == FeedRow(Str("A"), Str("n1"), Str("c1"), NaN, Ts(FirstDay + 1))
        b == FeedRow(Str("B"), Str("n1"), Str("c1"), NaN, Ts(FirstDay - 6))
        c == FeedRow(Str("C"), Str("n1"), Str("c1"), NaN, Ts(FirstDay + 17))
    IN  {a,
         [a EXCEPT !.ActionClass = Str("Mandatory")],
         [a EXCEPT !.Client = Str("nil")],
         [a EXCEPT !.Comments = Str("x")],
         b,
         [b EXCEPT !.ResponseStatus = Str("NOT APPLICABLE")],
         [b EXCEPT !.EventType = Str("OPTIONAL DIVIDEND")],
         [c EXCEPT !.EarlyDeadline = Ts(FirstDay + 1)]}

RunBatches == SeqsUpTo(RunFeed, MaxBatch)

\* How many runs a behaviour makes
MaxRuns == 2

InitRun ==
    /\ today = FirstDay
    /\ dl = NoDl
    /\ archive = <<>>
    /\ call = NoCall
    /\ wb = NoWb
    /\ run = NoRun
    /\ folder = NoFolder
    /\ proc = NoProc

\* Step 5: the previous Next 15 Days sheet and the previous Archive sheet of the
\* latest tracking file; a sheet that cannot be read is an empty frame
load_previous_tab1(book, reset_archive, tab1_ok) ==
    IF ~reset_archive /\ book.exists /\ tab1_ok THEN book.tab1 ELSE <<>>
\* The load that does not fall back to an empty archive
load_existing_excel_unguarded(book, reset_archive, archive_ok) ==
    IF ~reset_archive /\ book.exists THEN book.archive ELSE <<>>
load_existing_excel(book, reset_archive, archive_ok) ==
    IF ~reset_archive /\ book.exists /\ archive_ok THEN book.archive ELSE <<>>

\* What a run holds after step 7: its inputs, the merge result and the tabs
run_locals(new_df, reset_archive, archive_ok, previous_tab1_df, existing_archive_df, merged, tabs) ==
    [status |-> IF tabs.raised THEN "error" ELSE "ok",
     reset_archive |-> reset_archive,
     archive_ok |-> archive_ok,
     new_df |-> new_df,
     previous_tab1_df |-> previous_tab1_df,
     existing_archive_df |-> existing_archive_df,
     archive_df |-> merged.archive_df,
     change_summary |-> merged.change_summary,
     tab1_df |-> tabs.tab1_df,
     tab2_df |-> tabs.tab2_df]

\* Steps 6 and 7: merge, then the tabs from the merged archive
merge_and_tabs(new_df, reset_archive, archive_ok, previous_tab1_df, existing_archive_df, merged, T) ==
    run_locals(new_df, reset_archive, archive_ok, previous_tab1_df,
               existing_archive_df,
               [merged EXCEPT !.archive_df = archive_after_tabs(@, previous_tab1_df, T)],
               generate_tabs_from_archive(merged.archive_df, previous_tab1_df, T))

\* Steps 5 to 7 of run_ca_tracking for an input table that loaded and parsed
loaded_run(new_df, reset_archive, archive_ok, previous_tab1_df, existing_archive_df, T) ==
    merge_and_tabs(new_df, reset_archive, archive_ok, previous_tab1_df,
                   existing_archive_df,
                   merge_with_archive(new_df, existing_archive_df, T), T)

run_ca_tracking(new_df, book, reset_archive, archive_ok, tab1_ok, T) ==
    loaded_run(new_df, reset_archive, archive_ok,
               load_previous_tab1(book, reset_archive, tab1_ok),
               load_existing_excel(book, reset_archive, archive_ok), T)

\* Steps 8 and 9: the workbook a run leaves; a run that raised writes nothing
workbook_after(book, locals) ==
    IF locals.status = "ok"
    THEN save_to_excel(locals.tab1_df, locals.tab2_df, locals.archive_df)
    ELSE book

\* The columns of the loaded input table: every required column, or all but one
REQUIRED_COLUMNS ==
    {"SecurityID", "SecurityName", "EventType", "ResponseStatus", "Client",
     "ReferenceID", "ActionClass", "ISIN", "ClientDeadline", "EarlyDeadline"}
InputColumns == {REQUIRED_COLUMNS \cup {"Comments"}, REQUIRED_COLUMNS \ {"ISIN"}}

\* extract_columns without its check of the required columns
extract_columns_unchecked(columns) == FALSE

\* extract_columns raises ValueError when a required column is missing
extract_columns_raises(columns) == REQUIRED_COLUMNS \ columns # {}

\* What a run holds when step 3 raised: nothing was loaded, merged or generated
rejected_run(reset_archive) ==
    [status |-> "error",
     reset_archive |-> reset_archive,
     archive_ok |-> TRUE,
     new_df |-> <<>>,
     previous_tab1_df |-> <<>>,
     existing_archive_df |-> <<>>,
     archive_df |-> <<>>,
     change_summary |-> EmptySummary,
     tab1_df |-> <<>>,
     tab2_df |-> <<>>]

\* What main reports: the success dialog of run_ca_tracking, or, for any
\* exception that leaves run_ca_tracking, the error dialog
reported(locals, dialog_ok) ==
    IF locals.status = "ok" /\ dialog_ok THEN "success" ELSE "error"

\* The run from step 2 to the dialog, with the inputs it was given
run_outcome(columns, dialog_ok, locals, n) ==
    locals @@ [columns |-> columns, dialog_ok |-> dialog_ok,
               reported |-> reported(locals, dialog_ok), n |-> n]

RunTracking(columns, new_df, reset_archive, archive_ok, tab1_ok, dialog_ok) ==
    /\ run.status = "none"
    /\ run.n < MaxRuns
    /\ (reset_archive \/ ~wb.exists) => (archive_ok /\ tab1_ok)
    /\ (REQUIRED_COLUMNS \ columns # {}) => (new_df = <<>> /\ archive_ok /\ tab1_ok /\ dialog_ok)
    /\ ~dialog_ok => (archive_ok /\ tab1_ok /\ ~reset_archive)
    /\ run' = run_outcome(columns, dialog_ok,
                IF extract_columns_raises(columns)
                THEN rejected_run(reset_archive)
                ELSE run_ca_tracking(new_df, wb, reset_archive, archive_ok, tab1_ok, today),
                run.n + 1)
    /\ wb' = workbook_after(wb, run')
    /\ UNCHANGED <<folder, proc, today, dl, archive, call>>

\* The process ends: its locals are gone, the workbook stays
Exit ==
    /\ run.status # "none"
    /\ run' = [status |-> "none", n |-> run.n]
    /\ UNCHANGED <<folder, proc, today, dl, archive, call, wb>>

\* The next process starts on a later day
NextDay ==
    /\ run.status = "none"
    /\ today < FirstDay + MaxAdvance
    /\ today' = today + 1
    /\ UNCHANGED <<folder, proc, dl, archive, call, wb, run>>

\* Between two runs the operator types a comment into a row of the Next 15
\* Days sheet of the latest workbook, the sheet the next run reads the
\* previous comments from
HumanNote == Str("note")
EditComment(j) ==
    /\ run.status = "none"
    /\ wb.exists
    /\ j \in 1..Len(wb.tab1)
    /\ wb.tab1[j].Comments # HumanNote
    /\ wb' = [wb EXCEPT !.tab1[j].Comments = HumanNote]
    /\ UNCHANGED <<folder, proc, today, dl, archive, call, run>>

Next ==
    \/ \E columns \in InputColumns, new_df \in RunBatches,
          reset_archive, archive_ok, tab1_ok, dialog_ok \in BOOLEAN :
            RunTracking(columns, new_df, reset_archive, archive_ok, tab1_ok, dialog_ok)
    \/ Exit
    \/ NextDay
    \/ \E j \in 1..MaxBatch : EditComment(j)

Spec == InitRun /\ [][Next]_vars

---------------------------------------------------------------------------
(* Two overlapping runs of run_ca_tracking on one tracking folder          *)

\* Step 5: max(candidates, key=os.path.getmtime), no workbook when none exists
latest_workbook(dir) == IF dir.latest = 0 THEN NoWb ELSE dir.files[dir.latest]

\* The write of a workbook that leaves the modification time of the file behind
written_file_not_latest(dir, file_path, book) ==
    [dir EXCEPT !.files = (file_path :> book) @@ @]

\* A workbook written to file_path: the file holds it and is the one modified last
written_file(dir, file_path, book) ==
    [dir EXCEPT !.files = (file_path :> book) @@ @, !.latest = file_path]

\* Step 8, backup_existing_file: a copy of the file at file_path when one exists
\* (shutil.copy2 keeps the modification time, so a copy is never the latest)
backup_existing_file(dir, file_path) ==
    IF file_path \in DOMAIN dir.files
    THEN [dir EXCEPT !.backups = @ \cup {dir.files[file_path]}]
    ELSE dir

\* The seconds at which the two processes may start, and what they are fed
RaceSeconds == {2, 3}
RaceFeed ==
    <<FeedRow(Str("A"), Str("n1"), Str("c1"), NaN, Ts(FirstDay + 1)),
      FeedRow(Str("B"), Str("n1"), Str("c1"), NaN, Ts(FirstDay - 6)),
      [FeedRow(Str("C"), Str("n1"), Str("c1"), NaN, Ts(FirstDay + 17))
          EXCEPT !.EarlyDeadline = Ts(FirstDay + 1)]>>
RaceBatches == {<<RaceFeed[1]>>, <<RaceFeed[2]>>, <<RaceFeed[3]>>}

\* The folder before the overlap: empty, or holding the workbook of one earlier
\* run from second 1
FolderAfter(new_df) ==
    written_file(NoFolder, 1,
        workbook_after(NoWb, run_ca_tracking(new_df, NoWb, FALSE, TRUE, TRUE, FirstDay)))

InitRace ==
    /\ today = FirstDay
    /\ dl = NoDl
    /\ archive = <<>>
    /\ call = NoCall
    /\ wb = NoWb
    /\ run = NoRun
    /\ folder \in {NoFolder, FolderAfter(<<RaceFeed[1]>>), FolderAfter(<<RaceFeed[2]>>)}
    /\ proc = NoProc

\* A process after steps 1b to 7: its file name, the workbook it read and its results
started(file_path, read_file, book, locals) ==
    [pc |-> IF locals.status = "ok" THEN "backup" ELSE "failed",
     file_path |-> file_path, read_file |-> read_file, read |-> book,
     locals |-> locals, loaded |-> NoWb]

\* Steps 1b to 7: the timestamp of the file name (the clock does not run
\* backwards), the latest workbook, the merge and the tabs
Start(p, new_df, second) ==
    /\ proc[p].pc = "idle"
    /\ \A q \in Procs : proc[q].pc # "idle" => second >= proc[q].file_path
    /\ proc' = [proc EXCEPT ![p] =
                started(second, folder.latest, latest_workbook(folder),
                        run_ca_tracking(new_df, latest_workbook(folder),
                                        FALSE, TRUE, TRUE, today))]
    /\ UNCHANGED <<today, dl, archive, call, wb, run, folder>>

\* Step 8
Backup(p) ==
    /\ proc[p].pc = "backup"
    /\ folder' = backup_existing_file(folder, proc[p].file_path)
    /\ proc' = [proc EXCEPT ![p].pc = "save"]
    /\ UNCHANGED <<today, dl, archive, call, wb, run>>

\* Step 9, save_to_excel up to the close of the ExcelWriter
ToExcel(p) ==
    /\ proc[p].pc = "save"
    /\ folder' = written_file(folder, proc[p].file_path,
                    save_to_excel(proc[p].locals.tab1_df, proc[p].locals.tab2_df,
                                  proc[p].locals.archive_df))
    /\ proc' = [proc EXCEPT ![p].pc = "format"]
    /\ UNCHANGED <<today, dl, archive, call, wb, run>>

\* format_excel: openpyxl.load_workbook(file_path)
FormatLoad(p) ==
    /\ proc[p].pc = "format"
    /\ proc' = [proc EXCEPT ![p].loaded = folder.files[proc[p].file_path],
                            ![p].pc = "formatted"]
    /\ UNCHANGED <<today, dl, archive, call, wb, run, folder>>

\* format_excel: wb.save(file_path) of the workbook it loaded, restyled
FormatSave(p) ==
    /\ proc[p].pc = "formatted"
    /\ folder' = written_file(folder, proc[p].file_path, proc[p].loaded)
    /\ proc' = [proc EXCEPT ![p].pc = "done"]
    /\ UNCHANGED <<today, dl, archive, call, wb, run>>

\* The next step of process p after its start
ProcStep(p) == Backup(p) \/ ToExcel(p) \/ FormatLoad(p) \/ FormatSave(p)

NextRace ==
    \/ \E p \in Procs, new_df \in RaceBatches, second \in RaceSeconds : Start(p, new_df, second)
    \/ \E p \in Procs : Backup(p)
    \/ \E p \in Procs : ToExcel(p)
    \/ \E p \in Procs : FormatLoad(p)
    \/ \E p \in Procs : FormatSave(p)

SpecRace == InitRace /\ [][NextRace]_vars

---------------------------------------------------------------------------

(* Vocabulary of the properties                                            *)

\* A row carries a non-empty Reference ID
HasId(row) ==
    /\ row.ReferenceID # Missing
    /\ notna(row.ReferenceID)
    /\ pystr(row.ReferenceID).s # ""

\* The positions of the rows of a frame that carry identifier k
RowsOf(df, k) == {i \in 1..Len(df) : HasId(df[i]) /\ pystr(df[i].ReferenceID).s = k}

\* The identifiers of a frame
IdsOf(df) == {pystr(df[i].ReferenceID).s : i \in {j \in 1..Len(df) : HasId(df[j])}}

\* An annotation that is blank or absent
Blank(v) == v = Missing \/ isna(v) \/ (v.t = "str" /\ strip(v.s) = "")

\* An annotation's text without its surrounding whitespace
Trimmed(v) == IF Blank(v) THEN "" ELSE strip(v.s)

\* The identifiers the last merge found in the archive and, on exactly one row
\* each, in the batch and in the archive
Matched ==
    {k \in IdsOf(call.new_df) \cap IdsOf(call.existing) :
        /\ Cardinality(RowsOf(call.new_df, k)) = 1
        /\ Cardinality(RowsOf(call.existing, k)) = 1}
TheRow(df, k) == CHOOSE i \in RowsOf(df, k) : TRUE

\* The fields of the record both sides hold whose values differ once trimmed
\* (a blank and an absent value are the same)
FIELDS ==
    {"SecurityID", "SecurityName", "EventType", "ResponseStatus", "Client",
     "ReferenceID", "ActionClass", "ISIN", "ClientDeadline", "EarlyDeadline"}
Differing(row, stored) ==
    {col \in FIELDS :
        /\ row[col] # Missing
        /\ stored[col] # Missing
        /\ normalize_value(row[col]) # normalize_value(stored[col])}

---------------------------------------------------------------------------
(* Properties of merge_with_archive, under SpecMerge                       *)

\* C1: the archive holds at most one record per non-empty Reference ID, after
\* any sequence of merges from an empty archive, duplicate identifiers in a
\* batch included.
C1_OneRecordPerId ==
    \A k \in IdsOf(archive) : Cardinality(RowsOf(archive, k)) = 1

\* C2: every identifier in the archive before a merge is in the archive after
\* it, also when the incoming batch does not hold it.
C2_NoSilentDeletion ==
    call.active => IdsOf(call.existing) \subseteq IdsOf(archive)

\* C2 witness: a merge whose batch lacks an identifier of the archive
C2_Witness ==
    /\ call.active
    /\ IdsOf(call.existing) \ IdsOf(call.new_df) # {}
    /\ call.new_df # <<>>

\* C4: when every incoming record of an archived identifier has a blank or
\* absent annotation, the stored annotation is after the merge what it was
\* before, whether the record is updated, status-only or unchanged.
C4_BlankAnnotationPreserved ==
    call.active =>
        \A k \in IdsOf(call.new_df) \cap IdsOf(call.existing) :
            (\A j \in RowsOf(call.new_df, k) : Blank(call.new_df[j].Comments))
            => \A i \in RowsOf(call.existing, k) :
                    archive[i].Comments = call.existing[i].Comments

\* C4 witness: a materially updated record with a blank incoming annotation
\* whose stored annotation is not blank
C4_Witness ==
    /\ call.active
    /\ \E k \in Matched :
        /\ Blank(call.new_df[TheRow(call.new_df, k)].Comments)
        /\ ~Blank(call.existing[TheRow(call.existing, k)].Comments)
        /\ k \in Range(call.change_summary.updated)

SameAsArchived ==
    /\ call.new_df # <<>>
    /\ \A j \in 1..Len(call.new_df) : HasId(call.new_df[j])
    /\ IdsOf(call.new_df) \subseteq Matched
    /\ \A k \in IdsOf(call.new_df) :
        LET row == call.new_df[TheRow(call.new_df, k)]
            stored == call.existing[TheRow(call.existing, k)]
        IN  /\ Differing(row, stored) = {}
            /\ Trimmed(row.Comments) = Trimmed(stored.Comments)

\* C6: merging a batch identical to what is archived adds and updates nothing,
\* reports every batch identifier unchanged and leaves every archive field but
\* the two derived deadline fields as it was, also for a reloaded archive.
C6_IdempotentMerge ==
    (call.active /\ SameAsArchived) =>
        /\ call.change_summary.added = <<>>
        /\ call.change_summary.updated = <<>>
        /\ call.change_summary.status_only = <<>>
        /\ IdsOf(call.new_df) \subseteq Range(call.change_summary.unchanged)
        /\ Len(archive) = Len(call.existing)
        /\ \A i \in 1..Len(archive) :
            \A col \in DOMAIN archive[i] \ {"DeadlineDate", "DeadlineType"} :
                archive[i][col] = call.existing[i][col]

\* C6 witness: such a merge into an archive read back from its sheet, which
\* holds no raw deadline columns and another record besides
C6_Witness ==
    /\ call.active
    /\ SameAsArchived
    /\ Len(call.existing) > Len(call.new_df)
    /\ \A i \in 1..Len(call.existing) : call.existing[i].ClientDeadline = Missing

\* C7: for an archived identifier, differences in Client / Response Status
\* alone put it in status_only and neither in updated nor in updated_details;
\* a difference in any other field puts it in updated and not in status_only.
C7_Classification ==
    call.active =>
        \A k \in Matched :
            LET diff == Differing(call.new_df[TheRow(call.new_df, k)],
                                  call.existing[TheRow(call.existing, k)])
                cs == call.change_summary
            IN  /\ (diff # {} /\ diff \subseteq STATUS_COLS)
                    => /\ k \in Range(cs.status_only)
                       /\ k \notin Range(cs.updated)
                       /\ k \notin DOMAIN cs.updated_details
                /\ (diff \ STATUS_COLS # {})
                    => /\ k \in Range(cs.updated)
                       /\ k \notin Range(cs.status_only)

\* C7 witness: one merge with a status-only identifier and an updated one
C7_Witness ==
    /\ call.active
    /\ \E k \in Matched :
        /\ Differing(call.new_df[TheRow(call.new_df, k)],
                     call.existing[TheRow(call.existing, k)]) = {"Client"}
        /\ k \in Range(call.change_summary.status_only)

---------------------------------------------------------------------------
(* Properties of determine_deadline_date, under SpecDL                     *)

\* The seven rules in their order, each with its condition and its result,
\* for client deadline c and early deadline e (present or absent) and today T
InWindowAhead(has, d, T) == has /\ T <= d /\ d <= T + 15
InWindowBack(has, d, T) == has /\ T - 7 <= d /\ d < T
DeadlineRules(hasC, c, hasE, e, T) ==
    << [m |-> InWindowAhead(hasC, c, T) /\ InWindowAhead(hasE, e, T),
        r |-> IF c < e THEN <<Date(c), Str("Client")>> ELSE <<Date(e), Str("Early")>>],
       [m |-> InWindowAhead(hasE, e, T), r |-> <<Date(e), Str("Early")>>],
       [m |-> InWindowAhead(hasC, c, T), r |-> <<Date(c), Str("Client")>>],
       [m |-> InWindowBack(hasE, e, T), r |-> <<Date(e), Str("Early")>>],
       [m |-> InWindowBack(hasC, c, T), r |-> <<Date(c), Str("Client")>>],
       [m |-> hasE /\ e < T /\ hasC /\ c > T + 15, r |-> <<Date(c), Str("Client")>>],
       [m |-> TRUE, r |-> <<None, None>>] >>
FirstMatch(rules) == CHOOSE n \in 1..Len(rules) : rules[n].m /\ \A k \in 1..(n - 1) : ~rules[k].m

---------------------------------------------------------------------------
(* Properties of the runs, under Spec                                      *)

\* C3: with reset_archive false, an identifier of the latest persisted Archive
\* is in the persisted Archive after the run; identifiers leave it only through
\* a run with reset_archive true.
C3_IdsLeaveOnlyByReset ==
    [][ \/ run'.status = "none"
        \/ run'.reset_archive
        \/ IdsOf(wb.archive) \subseteq IdsOf(wb'.archive) ]_vars

\* A record that is active under the Business Filter
IsActive(row) ==
    /\ ~(row.ResponseStatus.t = "str"
            /\ row.ResponseStatus.s \in {"NOT APPLICABLE", "RESPONSE NOT APPLICABLE"})
    /\ row.Client.t = "str"
    /\ row.Client.s \notin {"nil", ""}
    /\ ~(row.EventType.t = "str" /\ row.EventType.s \in EXCLUDED_EVENT_TYPES)
    /\ ~(row.ActionClass.t = "str" /\ row.ActionClass.s = "Mandatory")

\* The effective deadline a record of the archive carries, if it carries one
HasDeadline(row) == row.DeadlineDate.t \in {"date", "iso"}
DeadlineDay(row) ==
    IF row.DeadlineDate.t = "iso" THEN DayOf(row.DeadlineDate.d) ELSE row.DeadlineDate.d

\* A view shows a record of the archive (the view sets its own Comments)
Shows(view, row) ==
    \E j \in 1..Len(view) :
        \A col \in DOMAIN row \ {"Comments"} : view[j][col] = row[col]

\* C9: an active record with T <= d <= T+15 is in Next 15 Days, one with
\* T-7 <= d < T is in Last 7 Days, every other one (d absent, d < T-7 or
\* d > T+15) is in neither view.
C9_ViewPartition ==
    run.status = "ok" =>
        \A i \in 1..Len(run.archive_df) :
            LET row == run.archive_df[i]
                d == DeadlineDay(row)
                ahead == HasDeadline(row) /\ today <= d /\ d <= today + 15
                back == HasDeadline(row) /\ today - 7 <= d /\ d < today
            IN  IsActive(row) =>
                    /\ Shows(run.tab1_df, row) <=> ahead
                    /\ Shows(run.tab2_df, row) <=> back

\* C9 witness: a record with d = T-1 in Last 7 Days beside a record with
\* d = T-8 in neither view
C9_Witness ==
    /\ run.status = "ok"
    /\ \E i, j \in 1..Len(run.archive_df) :
        /\ IsActive(run.archive_df[i])
        /\ HasDeadline(run.archive_df[i])
        /\ DeadlineDay(run.archive_df[i]) = today - 1
        /\ Shows(run.tab2_df, run.archive_df[i])
        /\ IsActive(run.archive_df[j])
        /\ HasDeadline(run.archive_df[j])
        /\ DeadlineDay(run.archive_df[j]) = today - 8
        /\ ~Shows(run.tab1_df, run.archive_df[j])
        /\ ~Shows(run.tab2_df, run.archive_df[j])

\* C10: after any run every record of Next 15 Days and of Last 7 Days is
\* active under the Business Filter, whatever its merge outcome was.
C10_ViewsHoldActiveRecords ==
    /\ run.status = "ok" =>
        /\ \A j \in 1..Len(run.tab1_df) : IsActive(run.tab1_df[j])
        /\ \A j \in 1..Len(run.tab2_df) : IsActive(run.tab2_df[j])
    /\ wb.exists =>
        /\ \A j \in 1..Len(wb.tab1) : IsActive(wb.tab1[j])
        /\ \A j \in 1..Len(wb.tab2) : IsActive(wb.tab2[j])

\* C10 witness: an updated record with a deadline in the window ahead that is
\* not active and in no view, while the views show another record
C10_Witness ==
    /\ run.status = "ok"
    /\ Len(run.tab1_df) + Len(run.tab2_df) > 0
    /\ \E i \in 1..Len(run.archive_df) :
        LET row == run.archive_df[i]
        IN  /\ ~IsActive(row)
            /\ HasDeadline(row)
            /\ today <= DeadlineDay(row)
            /\ DeadlineDay(row) <= today + 15
            /\ pystr(row.ReferenceID).s \in Range(run.change_summary.updated)
            /\ ~Shows(run.tab1_df, row)

\* The raw deadlines the feed gives for an identifier
FeedDeadlines(k) ==
    LET r == CHOOSE r \in RunFeed : pystr(r.ReferenceID).s = k
    IN  [ClientDeadline |-> r.ClientDeadline, EarlyDeadline |-> r.EarlyDeadline]

\* The stored effective deadline and tag of a record are a resolver result
StoredIs(row, res) ==
    IF res[1] = None
    THEN ~HasDeadline(row)
    ELSE /\ HasDeadline(row)
         /\ DeadlineDay(row) = res[1].d
         /\ row.DeadlineType = res[2]

\* C11: on every run, for every archive record that passes the Business
\* Filter, records absent from the latest batch included, the effective
\* deadline and tag that place it in a view are the resolver's result for the
\* record's client and early deadlines at this run's T.
C11_DeadlineResolvedEveryRun ==
    run.status = "ok" =>
        \A i \in 1..Len(run.archive_df) :
            LET row == run.archive_df[i]
            IN  (HasId(row) /\ IsActive(row))
                => StoredIs(row,
                        determine_deadline_date(FeedDeadlines(pystr(row.ReferenceID).s), today))

\* The rows of a view that show identifier k
ViewRows(view, k) == {j \in 1..Len(view) : HasId(view[j]) /\ pystr(view[j].ReferenceID).s = k}

\* The batch supplies a non-blank annotation for identifier k
BatchAnnotates(new_df, k) == \E j \in RowsOf(new_df, k) : ~Blank(new_df[j].Comments)

\* C12: a non-blank annotation a human entered on a record in the persisted
\* Next 15 Days view is that record's annotation in whichever view shows the
\* record on a later run, unless a feed batch supplied a non-blank annotation
\* for the identifier (stated for runs that read the previous view).
C12_HumanAnnotationSurvives ==
    [][ (/\ run.status = "none"
         /\ run'.status = "ok"
         /\ ~run'.reset_archive
         /\ run'.previous_tab1_df = wb.tab1)
        => \A j \in 1..Len(wb.tab1) :
            LET k == pystr(wb.tab1[j].ReferenceID).s
            IN  (/\ HasId(wb.tab1[j])
                 /\ wb.tab1[j].Comments = HumanNote
                 /\ ~BatchAnnotates(run'.new_df, k))
                => /\ \A i \in ViewRows(run'.tab1_df, k) :
                        Trimmed(run'.tab1_df[i].Comments) = Trimmed(HumanNote)
                   /\ \A i \in ViewRows(run'.tab2_df, k) :
                        Trimmed(run'.tab2_df[i].Comments) = Trimmed(HumanNote) ]_vars

\* The annotation a frame gives for identifier k: that of its one row for k,
\* blank when it has no row for k
AnnotationIn(df, k) ==
    IF RowsOf(df, k) = {} THEN "" ELSE Trimmed(df[TheRow(df, k)].Comments)

\* C13: the annotation of an entry of Next 15 Days is the record's
\* current-batch annotation when that is non-blank, else the identifier's
\* annotation in the previous run's Next 15 Days view when it has one, else
\* blank (identifiers on at most one row of the batch and of the previous view).
C13_EntryAnnotation ==
    [][ (/\ run.status = "none"
         /\ run'.status = "ok"
         /\ ~run'.reset_archive
         /\ run'.previous_tab1_df = wb.tab1)
        => \A j \in 1..Len(run'.tab1_df) :
            LET k == pystr(run'.tab1_df[j].ReferenceID).s
                batch == AnnotationIn(run'.new_df, k)
                previous == AnnotationIn(wb.tab1, k)
            IN  (/\ HasId(run'.tab1_df[j])
                 /\ Cardinality(RowsOf(run'.new_df, k)) <= 1
                 /\ Cardinality(RowsOf(wb.tab1, k)) <= 1)
                => Trimmed(run'.tab1_df[j].Comments) =
                        IF batch # "" THEN batch
                        ELSE IF previous # "" THEN previous
                        ELSE "" ]_vars

\* The entries of a view ascend by the date of their Deadline Date
Ascending(view) ==
    \A j \in 1..(Len(view) - 1) :
        /\ HasDeadline(view[j])
        /\ HasDeadline(view[j + 1])
        /\ DeadlineDay(view[j]) <= DeadlineDay(view[j + 1])

---------------------------------------------------------------------------
(* Further properties of merge_with_archive, under SpecMerge               *)

\* A cell after the merge is the cell before it; a column the frame gained
\* holds no value in a row that had none
SameCell(before, after) == after = before \/ (before = Missing /\ after = NaN)

\* C15: with a non-empty prior archive, every identifier of the prior archive
\* that the batch lacks is listed in missing_from_input and its archive row is
\* after the merge what it was before, annotation and derived deadline fields
\* included.
C15_OrphansReportedAndKept ==
    (call.active /\ call.existing # <<>>) =>
        \A k \in IdsOf(call.existing) \ IdsOf(call.new_df) :
            /\ k \in call.change_summary.missing_from_input
            /\ \A i \in RowsOf(call.existing, k) :
                \A col \in DOMAIN call.existing[i] :
                    SameCell(call.existing[i][col], archive[i][col])

\* C15 witness: a merge that updates one identifier while another, annotated
\* or not, is absent from the batch
C15_Witness ==
    /\ call.active
    /\ call.change_summary.updated # <<>>
    /\ IdsOf(call.existing) \ IdsOf(call.new_df) # {}
    /\ call.change_summary.missing_from_input = IdsOf(call.existing) \ IdsOf(call.new_df)

---------------------------------------------------------------------------
(* Failures of a run, under Spec                                           *)

\* C16: when a required column is missing from the input table the run fails
\* before any merge or view generation and writes no workbook: the persisted
\* archive and views are after the run what they were before it.
C16_SchemaErrorWritesNothing ==
    [][ (/\ run.status = "none"
         /\ run'.status # "none"
         /\ REQUIRED_COLUMNS \ run'.columns # {})
        => /\ run'.status = "error"
           /\ run'.reported = "error"
           /\ run'.change_summary = EmptySummary
           /\ run'.archive_df = <<>>
           /\ run'.tab1_df = <<>>
           /\ run'.tab2_df = <<>>
           /\ wb' = wb ]_vars

\* C16 witness: a run rejected for a missing column beside a workbook that an
\* earlier run wrote
C16_Witness ==
    /\ run.status = "error"
    /\ REQUIRED_COLUMNS \ run.columns # {}
    /\ wb.exists
    /\ wb.archive # <<>>

\* C17: when the previous archive cannot be read the run is not aborted: it
\* treats the archive as empty, reports every identifier of the batch as
\* added and persists a new workbook.
C17_UnreadableArchiveIsEmpty ==
    (run.status # "none" /\ ~run.archive_ok) =>
        /\ run.status = "ok"
        /\ run.existing_archive_df = <<>>
        /\ IdsOf(run.new_df) = Range(run.change_summary.added)
        /\ run.change_summary.updated = <<>>
        /\ run.change_summary.status_only = <<>>
        /\ run.change_summary.unchanged = <<>>
        /\ wb.exists
        /\ wb.archive = sheet_of(run.archive_df)
        /\ IdsOf(wb.archive) = IdsOf(run.new_df)

\* C17 witness: such a run on a batch of two identifiers
C17_Witness ==
    /\ run.status = "ok"
    /\ ~run.archive_ok
    /\ Cardinality(IdsOf(run.new_df)) = 2
    /\ Len(wb.archive) = 2

\* C18: when the success dialog fails after the workbook has been persisted
\* the run is still reported as successful, not as an error.
C18_DialogFailureStillSuccess ==
    (run.status = "ok" /\ ~run.dialog_ok) => run.reported = "success"

---------------------------------------------------------------------------
(* Comparison and overwrite in merge_with_archive, under SpecMerge         *)

\* The identifiers the last merge reported as changed
ReportedChanged ==
    Range(call.change_summary.updated) \cup Range(call.change_summary.status_only)

\* The fields the incoming record holds a value for and the stored row lacks
AbsentInStored(row, stored) ==
    {col \in FIELDS :
        /\ stored[col] = Missing
        /\ row[col] # Missing
        /\ normalize_value(row[col]) # Str("")}

\* The fields the stored row holds NaN for and the incoming record a value
NaNInStored(row, stored) ==
    {col \in FIELDS :
        /\ stored[col] # Missing
        /\ isna(stored[col])
        /\ row[col] # Missing
        /\ normalize_value(row[col]) # Str("")}

\* C19 as stated: a field absent from the archive's stored row with a
\* non-empty value in the incoming record counts as a changed field.
C19_AbsentFieldCountsAsChanged ==
    call.active =>
        \A k \in Matched :
            AbsentInStored(call.new_df[TheRow(call.new_df, k)],
                           call.existing[TheRow(call.existing, k)]) # {}
            => k \in ReportedChanged

\* C19 amended: a field that is NaN in the stored row and non-empty in the
\* incoming record counts as changed; a field whose column the stored row
\* lacks is not compared, so a record that differs in such fields only is
\* reported unchanged.
C19_MissingValueComparison ==
    call.active =>
        \A k \in Matched :
            LET row == call.new_df[TheRow(call.new_df, k)]
                stored == call.existing[TheRow(call.existing, k)]
            IN  /\ NaNInStored(row, stored) # {} => k \in ReportedChanged
                /\ Differing(row, stored) = {}
                    => /\ k \notin ReportedChanged
                       /\ k \in Range(call.change_summary.unchanged)

\* C19 witness: one merge with a record whose stored Security Name is NaN,
\* reported changed, and a record whose stored row lacks the raw deadline
\* columns, reported unchanged
C19_Witness ==
    /\ call.active
    /\ \E k1, k2 \in Matched :
        /\ NaNInStored(call.new_df[TheRow(call.new_df, k1)],
                       call.existing[TheRow(call.existing, k1)]) # {}
        /\ k1 \in ReportedChanged
        /\ AbsentInStored(call.new_df[TheRow(call.new_df, k2)],
                          call.existing[TheRow(call.existing, k2)]) # {}
        /\ k2 \in Range(call.change_summary.unchanged)

\* C20: when a core field of an archived identifier differs from the incoming
\* record, every field of the archive row except the annotation is after the
\* merge the incoming record's value for it, the two derived deadline fields
\* being the resolver's result for the incoming record.
C20_UpdateOverwritesFields ==
    call.active =>
        \A k \in Matched :
            LET row == call.new_df[TheRow(call.new_df, k)]
                stored == call.existing[TheRow(call.existing, k)]
                after == archive[TheRow(call.existing, k)]
                res == determine_deadline_date(row, today)
            IN  (Differing(row, stored) \ STATUS_COLS # {})
                => /\ \A col \in FIELDS : row[col] # Missing => after[col] = row[col]
                   /\ after.DeadlineDate = (IF res[1] = None THEN Str("") ELSE res[1])
                   /\ after.DeadlineType = (IF res[2] = None THEN Str("") ELSE res[2])

\* C20 witness: an updated record whose stored row, read back from the sheet,
\* had no raw deadline columns and holds the incoming ones after the merge
C20_Witness ==
    /\ call.active
    /\ \E k \in Matched :
        LET row == call.new_df[TheRow(call.new_df, k)]
            stored == call.existing[TheRow(call.existing, k)]
        IN  /\ Differing(row, stored) \ STATUS_COLS # {}
            /\ k \in Range(call.change_summary.updated)
            /\ stored.ClientDeadline = Missing
            /\ archive[TheRow(call.existing, k)].ClientDeadline = row.ClientDeadline
            /\ archive[TheRow(call.existing, k)].SecurityName = row.SecurityName

---------------------------------------------------------------------------
(* The change summary of merge_with_archive, under SpecMerge               *)

\* The detail entry d lists exactly the fields of the set, once each, with the
\* normalized stored value as old and the normalized incoming value as new
DetailLists(d, fields, row, stored) ==
    /\ Range(d.changed_columns) = fields
    /\ Len(d.changed_columns) = Cardinality(fields)
    /\ DOMAIN d.old_values = fields
    /\ DOMAIN d.new_values = fields
    /\ \A col \in fields :
        /\ d.old_values[col] = normalize_value(stored[col])
        /\ d.new_values[col] = normalize_value(row[col])

\* C21 as stated: the detail entry of a materially updated identifier lists
\* exactly the compared fields whose normalized values differ, the status
\* fields that changed in the same merge included, with old and new value.
C21_DetailListsEveryChange ==
    call.active =>
        \A k \in Matched :
            LET row == call.new_df[TheRow(call.new_df, k)]
                stored == call.existing[TheRow(call.existing, k)]
            IN  k \in Range(call.change_summary.updated)
                => /\ k \in DOMAIN call.change_summary.updated_details
                   /\ DetailLists(call.change_summary.updated_details[k],
                                  Differing(row, stored), row, stored)

\* C21 amended: the detail entry of a materially updated identifier lists
\* exactly the compared fields other than Client and Response Status whose
\* normalized values differ, each with the normalized archive value as old
\* and the normalized incoming value as new; a status field that changed in
\* the same merge is not listed.
C21_DetailListsCoreChanges ==
    call.active =>
        \A k \in Matched :
            LET row == call.new_df[TheRow(call.new_df, k)]
                stored == call.existing[TheRow(call.existing, k)]
            IN  k \in Range(call.change_summary.updated)
                => /\ k \in DOMAIN call.change_summary.updated_details
                   /\ DetailLists(call.change_summary.updated_details[k],
                                  Differing(row, stored) \ STATUS_COLS, row, stored)

\* C21 witness: a materially updated identifier whose Security Name and Client
\* both differ, with a detail entry for the Security Name alone
C21_Witness ==
    /\ call.active
    /\ \E k \in Matched :
        /\ k \in Range(call.change_summary.updated)
        /\ Differing(call.new_df[TheRow(call.new_df, k)],
                     call.existing[TheRow(call.existing, k)]) = {"SecurityName", "Client"}
        /\ call.change_summary.updated_details[k].changed_columns = <<"SecurityName">>

---------------------------------------------------------------------------
(* The status-only branch of merge_with_archive, under SpecMerge           *)

\* The identifiers of the last merge whose status fields alone differ
StatusOnly ==
    {k \in Matched :
        LET diff == Differing(call.new_df[TheRow(call.new_df, k)],
                              call.existing[TheRow(call.existing, k)])
        IN  diff # {} /\ diff \subseteq STATUS_COLS}

\* C22 as stated: when only status fields of an archived identifier differ,
\* every stored field other than the status fields and the two derived
\* deadline fields, and the annotation when the incoming one is blank, is
\* after the merge exactly what was stored.
C22_StatusOnlyTouchesNothingElse ==
    call.active =>
        \A k \in StatusOnly :
            LET row == call.new_df[TheRow(call.new_df, k)]
                stored == call.existing[TheRow(call.existing, k)]
                after == archive[TheRow(call.existing, k)]
            IN  /\ \A col \in FIELDS \ STATUS_COLS :
                    stored[col] # Missing => after[col] = stored[col]
                /\ Blank(row.Comments) => after.Comments = stored.Comments

\* C22 amended: when only status fields of an archived identifier differ, the
\* merge writes the incoming value of every field but the annotation into the
\* archive row; every stored field other than the status fields and the two
\* derived deadline fields keeps its value up to normalization (surrounding
\* whitespace, an empty value), a field the stored row lacked holds the
\* incoming value, and the annotation is left exactly as stored when the
\* incoming one is blank.
C22_StatusOnlyKeepsNormalizedFields ==
    call.active =>
        \A k \in StatusOnly :
            LET row == call.new_df[TheRow(call.new_df, k)]
                stored == call.existing[TheRow(call.existing, k)]
                after == archive[TheRow(call.existing, k)]
            IN  /\ \A col \in FIELDS :
                    row[col] # Missing => after[col] = row[col]
                /\ \A col \in FIELDS \ STATUS_COLS :
                    stored[col] # Missing
                        => normalize_value(after[col]) = normalize_value(stored[col])
                /\ Blank(row.Comments) => after.Comments = stored.Comments

\* C22 witness: a status-only identifier whose stored Security Name and the
\* incoming one differ in surrounding whitespace, the stored row holding
\* the incoming text after the merge, and a stored annotation left in place
C22_Witness ==
    /\ call.active
    /\ \E k \in StatusOnly :
        LET row == call.new_df[TheRow(call.new_df, k)]
            stored == call.existing[TheRow(call.existing, k)]
            after == archive[TheRow(call.existing, k)]
        IN  /\ k \in Range(call.change_summary.status_only)
            /\ stored.SecurityName # row.SecurityName
            /\ after.SecurityName = row.SecurityName
            /\ after.Client = row.Client
            /\ ~Blank(stored.Comments)
            /\ after.Comments = stored.Comments

---------------------------------------------------------------------------
(* The derived deadline fields after merge_with_archive, under SpecMerge   *)

\* The identifiers of the batch of the last merge that are on one row of the
\* batch and on at most one row of the prior archive
BatchIds ==
    {k \in IdsOf(call.new_df) :
        /\ Cardinality(RowsOf(call.new_df, k)) = 1
        /\ Cardinality(RowsOf(call.existing, k)) <= 1}

\* A stored derived field holds a resolver result, empty text for an absent one
HoldsResult(cell, res) == cell = (IF res = None THEN Str("") ELSE res)

\* C23: after merge_with_archive, for every non-empty identifier of the batch,
\* added, materially updated, cosmetically updated or unchanged, the archive
\* row's Deadline Date and Deadline Type are the resolver's result for the
\* incoming record's two raw deadlines at T, empty when the resolver returns
\* absent.
C23_DeadlineRefreshedForBatch ==
    call.active =>
        \A k \in BatchIds :
            LET row == call.new_df[TheRow(call.new_df, k)]
                res == determine_deadline_date(row, today)
            IN  /\ Cardinality(RowsOf(archive, k)) = 1
                /\ HoldsResult(archive[TheRow(archive, k)].DeadlineDate, res[1])
                /\ HoldsResult(archive[TheRow(archive, k)].DeadlineType, res[2])

\* C23 witness: one merge that adds an identifier and reports another
\* unchanged whose stored Deadline Date was a date and is empty afterwards
C23_Witness ==
    /\ call.active
    /\ call.change_summary.added # <<>>
    /\ \E k \in BatchIds :
        /\ k \in Range(call.change_summary.unchanged)
        /\ HasDeadline(call.existing[TheRow(call.existing, k)])
        /\ archive[TheRow(archive, k)].DeadlineDate = Str("")
        /\ archive[TheRow(archive, k)].DeadlineType = Str("")

---------------------------------------------------------------------------
(* Records without an identifier in merge_with_archive, under SpecMerge    *)

\* The entries of the four lists of the change summary that name batch rows
ListedIds(cs) ==
    Range(cs.added) \cup Range(cs.updated) \cup Range(cs.status_only) \cup Range(cs.unchanged)

\* C24: a record whose Reference ID is empty does not take part in the merge:
\* whether the prior archive is empty or not, no row without an identifier is
\* inserted into the archive and the change-summary lists name only the
\* non-empty identifiers of the batch.
C24_EmptyIdStaysOut ==
    call.active =>
        /\ \A i \in 1..Len(archive) : i > Len(call.existing) => HasId(archive[i])
        /\ ListedIds(call.change_summary) \subseteq IdsOf(call.new_df)

---------------------------------------------------------------------------
(* Identifiers new to the archive in merge_with_archive, under SpecMerge   *)

\* The identifiers of the batch of the last merge the prior archive lacks
NewIds == IdsOf(call.new_df) \ IdsOf(call.existing)

\* C25 as stated: every non-empty identifier of the batch that is absent from
\* the prior archive is inserted and listed in added, whether or not the
\* record passes the Business Filter, and its stored annotation is the
\* incoming annotation when that is non-blank and empty otherwise.
C25_AddedWithExactAnnotation ==
    call.active =>
        \A k \in NewIds :
            /\ RowsOf(archive, k) # {}
            /\ k \in Range(call.change_summary.added)
            /\ Cardinality(RowsOf(call.new_df, k)) = 1
                => LET incoming == call.new_df[TheRow(call.new_df, k)].Comments
                   IN  /\ Cardinality(RowsOf(archive, k)) = 1
                       /\ archive[TheRow(archive, k)].Comments =
                            (IF Blank(incoming) THEN Str("") ELSE incoming)

\* C25 amended: every such identifier is inserted and listed in added, whether
\* or not the record passes the Business Filter, and its stored annotation is
\* the incoming annotation up to surrounding whitespace: with a non-empty
\* prior archive the incoming text stripped (empty for a blank one), with an
\* empty prior archive the incoming text as it is (empty for a missing one).
C25_AddedWithAnnotation ==
    call.active =>
        \A k \in NewIds :
            /\ RowsOf(archive, k) # {}
            /\ k \in Range(call.change_summary.added)
            /\ Cardinality(RowsOf(call.new_df, k)) = 1
                => LET incoming == call.new_df[TheRow(call.new_df, k)].Comments
                       stored == archive[TheRow(archive, k)].Comments
                   IN  /\ Cardinality(RowsOf(archive, k)) = 1
                       /\ Trimmed(stored) = Trimmed(incoming)
                       /\ call.existing # <<>> => stored = Str(Trimmed(incoming))
                       /\ call.existing = <<>>
                            => stored = (IF isna(incoming) THEN Str("") ELSE incoming)

\* C25 witness: a merge into a non-empty archive that adds a record the
\* Business Filter rejects, its whitespace annotation stored as empty text
C25_Witness ==
    /\ call.active
    /\ call.existing # <<>>
    /\ \E k \in NewIds :
        /\ Cardinality(RowsOf(call.new_df, k)) = 1
        /\ ~IsActive(call.new_df[TheRow(call.new_df, k)])
        /\ call.new_df[TheRow(call.new_df, k)].Comments = Str(" ")
        /\ k \in Range(call.change_summary.added)
        /\ archive[TheRow(archive, k)].Comments = Str("")

---------------------------------------------------------------------------
(* Overlapping runs, under SpecRace                                        *)

\* Both processes read the folder before either wrote a workbook into it
Overlapped == \A p \in Procs : proc[p].pc # "idle" /\ proc[p].read_file < 2

\* The workbook process p computed, as it is read back
ResultOf(p) ==
    save_to_excel(proc[p].locals.tab1_df, proc[p].locals.tab2_df, proc[p].locals.archive_df)

\* The identifiers only process q brought: not in its rival's batch nor in the
\* archive both read
OnlyFrom(q, p) ==
    IdsOf(proc[q].locals.new_df)
        \ (IdsOf(proc[p].locals.new_df) \cup IdsOf(proc[p].read.archive))

\* C26: when two runs overlap on one tracking folder (both read the same latest
\* workbook before either writes) no step of either run waits for the other,
\* and once both have finished the latest workbook is the result one of the
\* two computed from the archive both read: the identifiers only the other
\* run added are not in it.
C26_LastWriterWins ==
    /\ \A p \in Procs :
        /\ proc[p].pc = "idle"
            => ENABLED (\E new_df \in RaceBatches, second \in RaceSeconds : Start(p, new_df, second))
        /\ proc[p].pc \in {"backup", "save", "format", "formatted"} => ENABLED ProcStep(p)
    /\ (Overlapped /\ \A p \in Procs : proc[p].pc = "done")
        => /\ proc[1].read = proc[2].read
           /\ \E p \in Procs :
                /\ latest_workbook(folder) = ResultOf(p)
                /\ proc[p].locals.existing_archive_df = proc[p].read.archive
                /\ \A q \in Procs \ {p} :
                    OnlyFrom(q, p) \cap IdsOf(latest_workbook(folder).archive) = {}

\* C26 witness: two finished overlapping runs on one archive and one file
\* name, each with an identifier the other lacks, the latest workbook holding
\* the archive's identifier and that of one run only
C26_Witness ==
    /\ Overlapped
    /\ \A p \in Procs : proc[p].pc = "done"
    /\ proc[1].file_path = proc[2].file_path
    /\ IdsOf(proc[1].read.archive) # {}
    /\ OnlyFrom(1, 2) # {}
    /\ OnlyFrom(2, 1) # {}
    /\ IdsOf(proc[1].read.archive) \subseteq IdsOf(latest_workbook(folder).archive)
    /\ OnlyFrom(1, 2) \cap IdsOf(latest_workbook(folder).archive) = {}
    /\ OnlyFrom(2, 1) \subseteq IdsOf(latest_workbook(folder).archive)

---------------------------------------------------------------------------
(* The lists of the change summary, under SpecMerge                        *)

\* How often a list names identifier k
Count(list, k) == Cardinality({i \in 1..Len(list) : list[i] = k})

\* The non-empty identifiers of the batch are pairwise distinct
DistinctIds(df) == \A k \in IdsOf(df) : Cardinality(RowsOf(df, k)) = 1

\* C27: for a batch whose non-empty identifiers are pairwise distinct, each
\* batch identifier is after the merge in exactly one of added, updated,
\* status_only, unchanged, once, and missing_from_input is exactly the set of
\* identifiers of the prior archive that the batch lacks, disjoint from the
\* four lists.
C27_SummaryPartitionsBatch ==
    (call.active /\ DistinctIds(call.new_df)) =>
        LET cs == call.change_summary
        IN  /\ \A k \in IdsOf(call.new_df) :
                Count(cs.added, k) + Count(cs.updated, k)
                    + Count(cs.status_only, k) + Count(cs.unchanged, k) = 1
            /\ cs.missing_from_input = IdsOf(call.existing) \ IdsOf(call.new_df)
            /\ cs.missing_from_input \cap ListedIds(cs) = {}

\* C27 witness: a batch of two identifiers merged into a non-empty archive,
\* one added and one updated
C27_Witness ==
    /\ call.active
    /\ DistinctIds(call.new_df)
    /\ call.existing # <<>>
    /\ Cardinality(IdsOf(call.new_df)) = 2
    /\ Len(call.change_summary.added) = 1
    /\ Len(call.change_summary.updated) = 1
    /\ call.change_summary.missing_from_input = {}

---------------------------------------------------------------------------
(* The views and the archive they are made from, under Spec                *)

\* C28: for every archive and every T the two views generate_tabs_from_archive
\* returns are disjoint (no archive row is in both) and every view entry is a
\* row of the archive passed in (an entry of Next 15 Days with the annotation
\* the view gives it), so every identifier a view shows is an identifier of
\* the archive.
C28_ViewsAreDisjointArchiveRows ==
    run.status = "ok" =>
        /\ \A j \in 1..Len(run.tab1_df) :
            \E i \in 1..Len(run.archive_df) :
                \A col \in DOMAIN run.archive_df[i] \ {"Comments"} :
                    run.tab1_df[j][col] = run.archive_df[i][col]
        /\ \A j \in 1..Len(run.tab2_df) :
            \E i \in 1..Len(run.archive_df) : run.tab2_df[j] = run.archive_df[i]
        /\ \A i \in 1..Len(run.archive_df) :
            ~(Shows(run.tab1_df, run.archive_df[i]) /\ Shows(run.tab2_df, run.archive_df[i]))
        /\ Len(run.tab1_df) + Len(run.tab2_df) <= Len(run.archive_df)
        /\ IdsOf(run.tab1_df) \cup IdsOf(run.tab2_df) \subseteq IdsOf(run.archive_df)

\* C28 witness: a run with entries in both views, one of Next 15 Days carrying
\* an annotation its archive row does not hold
C28_Witness ==
    /\ run.status = "ok"
    /\ run.tab2_df # <<>>
    /\ \E j \in 1..Len(run.tab1_df) :
        /\ run.tab1_df[j].Comments = HumanNote
        /\ \A i \in 1..Len(run.archive_df) : run.archive_df[i].Comments # HumanNote

---------------------------------------------------------------------------
(* The archive after the views are generated, under Spec                   *)

====
